---- MODULE Spec2Model ----
(***************************************************************************)
(* Fort Siloso Voice Guide (src/app.py): a Streamlit script that is re-run *)
(* from top to bottom on every user interaction.  The conversation log     *)
(* lives in st.session_state.messages and survives the re-runs; widget     *)
(* values (recorder clip, selected voice) are kept by the framework; the   *)
(* two buttons are TRUE only in the run their click triggers.              *)
(*                                                                         *)
(* The three OpenAI calls are external: each either returns a value drawn  *)
(* from a small set or raises.  The framework runs one script run to its   *)
(* end (or to st.stop()) before the next user event is taken.              *)
(***************************************************************************)
EXTENDS Integers, Sequences, FiniteSets, TLC

\* ------------------------------------------------------------------ bounds
MaxMessages == 5      \* a send is only offered while the log has room for a turn
MaxResets   == 2      \* cap of the consecutive-reset counter

\* ------------------------------------------------------------- data values
Msg(role, content) == [role |-> role, content |-> content]

\* src/app.py:31-50, the seeded system prompt
Seed == Msg("system", "You are a knowledgeable, friendly voice guide for Fort Siloso")

UserMessage(question_text) == Msg("user", question_text)
AssistantMessage(answer) == Msg("assistant", answer)

\* values of the recorder widget: None, or a byte string (possibly empty)
NoneAudio == [kind |-> "None", data |-> <<>>]
Bytes(d) == [kind |-> "bytes", data |-> d]
Recordings == {Bytes(<<>>), Bytes(<<82, 73>>)}

\* Python truthiness of `audio_bytes`: None and b"" are falsy
Truthy(ab) == ab.kind = "bytes" /\ Len(ab.data) > 0

\* src/app.py:70
VoiceOptions == <<"alloy", "echo", "fable", "onyx", "nova", "shimmer">>
Voices == {VoiceOptions[i] : i \in 1..Len(VoiceOptions)}

\* what the external services may return
Transcripts == {"", "What is the Surrender Chamber?"}
Answers == {"It depicts the 1942 British surrender", "I only answer questions about Fort Siloso"}
NoText == "<unset>"
NoSpeech == [kind |-> "None", voice |-> "", input |-> ""]
Speech(voice_name, answer_text) == [kind |-> "mp3", voice |-> voice_name, input |-> answer_text]

Min(a, b) == IF a < b THEN a ELSE b

\* Python slice s[:n] for n >= 0
SliceTo(s, n) == SubSeq(s, 1, Min(n, Len(s)))
\* Python slice s[n:] for n >= 0
SliceFrom(s, n) == SubSeq(s, n + 1, Len(s))

VARIABLES
  has_key,         \* st.secrets holds OPENAI_API_KEY
  has_messages,    \* "messages" in st.session_state
  messages,        \* st.session_state.messages
  audio_bytes,     \* value of the audio_recorder widget
  voice,           \* value of the selectbox
  send_now,        \* "Ask in voice" button, this run
  clear_chat,      \* "Reset conversation" button, this run
  rendered,        \* the widgets of lines 68-93 are on the page
  send_disabled,   \* disabled flag the send button was last rendered with
  pc,              \* position of the script run
  question_text, answer_text, answer_audio,   \* locals of the run
  shown,           \* elements written to the page by the pipeline in this run
  history_panel,   \* lines of the conversation panel rendered in this run
  \* history variables (observations, not program state)
  pre,             \* the log when the current/last turn started
  stages,          \* stages entered by the current/last turn, in order
  calls,           \* external calls made by the current/last turn, in order
  chat_arg,        \* `messages` argument of the turn's completion call
  fresh,           \* a recording was captured since the last send
  fail_log,        \* the log at the point the previous turn failed (<<>>: n/a)
  resets,          \* resets applied since the log was last appended to
  len_before_reset \* length of the log before the first of those resets

progvars == <<has_key, has_messages, messages, audio_bytes, voice, send_now,
              clear_chat, rendered, send_disabled, pc, question_text,
              answer_text, answer_audio, shown, history_panel>>
histvars == <<pre, stages, calls, chat_arg, fresh, fail_log, resets, len_before_reset>>
vars == <<progvars, histvars>>

Init ==
  /\ has_key \in BOOLEAN
  /\ has_messages = FALSE
  /\ messages = <<>>
  /\ audio_bytes = NoneAudio
  /\ voice = VoiceOptions[1]
  /\ send_now = FALSE
  /\ clear_chat = FALSE
  /\ rendered = FALSE
  /\ send_disabled = TRUE
  /\ pc = "top"
  /\ question_text = NoText
  /\ answer_text = NoText
  /\ answer_audio = NoSpeech
  /\ shown = <<>>
  /\ history_panel = <<>>
  /\ pre = <<>>
  /\ stages = <<>>
  /\ calls = <<>>
  /\ chat_arg = <<>>
  /\ fresh = FALSE
  /\ fail_log = <<>>
  /\ resets = 0
  /\ len_before_reset = 0


\* ------------------------------------------------- pieces of the script
\* variant: the log is re-seeded on every run
SessionMessages_Always(has, msgs) == <<Seed>>

\* src/app.py:30-50  `if "messages" not in st.session_state: ... = [seed]`
SessionMessages(has, msgs) == IF ~has THEN <<Seed>> ELSE msgs

\* variant: `disabled=audio_bytes is None`
SendDisabled_NoneOnly(ab) == ab.kind = "None"

\* src/app.py:91  `disabled=not bool(audio_bytes)`
SendDisabled(ab) == ~Truthy(ab)

\* variants: `messages[1:]` and `messages[:2]`
KeepSystemPrompt_DropFirst(msgs) == SliceFrom(msgs, 1)
KeepSystemPrompt_KeepTwo(msgs) == SliceTo(msgs, 2)

\* src/app.py:96  `st.session_state.messages[:1]`
KeepSystemPrompt(msgs) == SliceTo(msgs, 1)

\* src/app.py:143  `if send_now and audio_bytes:`
RunFlow(sn, ab) == sn /\ Truthy(ab)

\* src/app.py:116  `messages.append({"role": "user", "content": question_text})`
AppendQuestion(msgs, q) == Append(msgs, UserMessage(q))

\* variant: only the system prompt and the latest entry are sent
CompletionMessages_Window(msgs) == <<msgs[1]>> \o SliceFrom(msgs, Len(msgs) - 1)

\* src/app.py:120  `messages=st.session_state.messages`
CompletionMessages(msgs) == msgs

\* a completion response; `choices` may come back empty
Completion(choices) == [choices |-> choices]
Choice(content) == [message |-> AssistantMessage(content)]
Completions == {Completion(<<Choice(a)>>) : a \in Answers} \cup {Completion(<<>>)}

\* src/app.py:124  `completion.choices[0].message.content`
AnswerOf(completion) == completion.choices[1].message.content

\* variant: the answer overwrites the last entry instead of being appended
AppendAnswer_Overwrite(msgs, a) == Append(SliceTo(msgs, Len(msgs) - 1), AssistantMessage(a))

\* src/app.py:125  `messages.append({"role": "assistant", "content": answer})`
AppendAnswer(msgs, a) == Append(msgs, AssistantMessage(a))

\* src/app.py:180-182  the history panel: skip the system entry, label by role
PanelLine(msg) == [label |-> IF msg.role = "user" THEN "You" ELSE "Guide", content |-> msg.content]
HistoryLines(msgs) == [i \in 1..Len(SliceFrom(msgs, 1)) |-> PanelLine(SliceFrom(msgs, 1)[i])]

Out(kind, text) == [kind |-> kind, text |-> text]
Last(s) == s[Len(s)]

\* ------------------------------------------------------------ user events
\* Every widget event starts a new script run; buttons are TRUE only in the
\* run started by their own click.
StartRun(sn, cc) ==
  /\ send_now' = sn
  /\ clear_chat' = cc
  /\ pc' = "top"

\* the recorder widget delivers a new recording (src/app.py:76)
Record ==
  /\ pc = "wait" /\ rendered
  /\ \E clip \in Recordings : audio_bytes' = clip
  /\ fresh' = TRUE
  /\ StartRun(FALSE, FALSE)
  /\ UNCHANGED <<has_key, has_messages, messages, voice, rendered, send_disabled,
                 question_text, answer_text, answer_audio, shown, history_panel,
                 pre, stages, calls, chat_arg, fail_log, resets, len_before_reset>>

\* the selectbox changes (src/app.py:68-72)
SelectVoice ==
  /\ pc = "wait" /\ rendered
  /\ \E v \in Voices \ {voice} : voice' = v
  /\ StartRun(FALSE, FALSE)
  /\ UNCHANGED <<has_key, has_messages, messages, audio_bytes, rendered, send_disabled,
                 question_text, answer_text, answer_audio, shown, history_panel,
                 pre, stages, calls, chat_arg, fresh, fail_log, resets, len_before_reset>>

\* a click on "Ask in voice"; a button rendered disabled cannot be clicked
ClickSend ==
  /\ pc = "wait" /\ rendered
  /\ ~send_disabled
  /\ Len(messages) + 2 <= MaxMessages
  /\ StartRun(TRUE, FALSE)
  /\ UNCHANGED <<has_key, has_messages, messages, audio_bytes, voice, rendered, send_disabled,
                 question_text, answer_text, answer_audio, shown, history_panel,
                 pre, stages, calls, chat_arg, fresh, fail_log, resets, len_before_reset>>

\* a click on "Reset conversation"
ClickReset ==
  /\ pc = "wait" /\ rendered
  /\ StartRun(FALSE, TRUE)
  /\ UNCHANGED <<has_key, has_messages, messages, audio_bytes, voice, rendered, send_disabled,
                 question_text, answer_text, answer_audio, shown, history_panel,
                 pre, stages, calls, chat_arg, fresh, fail_log, resets, len_before_reset>>

\* ------------------------------------------------------------ the script
\* src/app.py:17-25  no API key: st.error and st.stop() before anything else
StartupNoKey ==
  /\ pc = "top" /\ ~has_key
  /\ shown' = <<Out("error", "OPENAI_API_KEY is not set.")>>
  /\ pc' = "wait"
  /\ UNCHANGED <<has_key, has_messages, messages, audio_bytes, voice, send_now, clear_chat,
                 rendered, send_disabled, question_text, answer_text, answer_audio,
                 history_panel, histvars>>

\* src/app.py:30-93  seed the log if absent, render the widgets
ScriptTop ==
  /\ pc = "top" /\ has_key
  /\ has_messages' = TRUE
  /\ messages' = SessionMessages(has_messages, messages)
  /\ rendered' = TRUE
  /\ send_disabled' = SendDisabled(audio_bytes)
  /\ question_text' = NoText
  /\ answer_text' = NoText
  /\ answer_audio' = NoSpeech
  /\ shown' = <<>>
  /\ history_panel' = <<>>
  /\ pre' = <<>>
  /\ stages' = <<>>
  /\ calls' = <<>>
  /\ chat_arg' = <<>>
  /\ fail_log' = IF stages # <<>> /\ Last(stages) = "Done" THEN <<>> ELSE fail_log
  /\ pc' = "reset_check"
  /\ UNCHANGED <<has_key, audio_bytes, voice, send_now, clear_chat, fresh, resets, len_before_reset>>

\* src/app.py:95-97  reset: keep only the system prompt, then st.rerun()
ClearChat ==
  /\ pc = "reset_check" /\ clear_chat
  /\ messages' = KeepSystemPrompt(messages)
  /\ StartRun(FALSE, FALSE)
  /\ resets' = Min(resets + 1, MaxResets)
  /\ len_before_reset' = IF resets = 0 THEN Len(messages) ELSE len_before_reset
  /\ fail_log' = <<>>
  /\ UNCHANGED <<has_key, has_messages, audio_bytes, voice, rendered, send_disabled,
                 question_text, answer_text, answer_audio, shown, history_panel,
                 pre, stages, calls, chat_arg, fresh>>

NoClearChat ==
  /\ pc = "reset_check" /\ ~clear_chat
  /\ pc' = "guard"
  /\ UNCHANGED <<has_key, has_messages, messages, audio_bytes, voice, send_now, clear_chat,
                 rendered, send_disabled, question_text, answer_text, answer_audio,
                 shown, history_panel, histvars>>

\* src/app.py:143-144  the pipeline guard passes: the turn enters Transcribing
StartTurn ==
  /\ pc = "guard" /\ RunFlow(send_now, audio_bytes)
  /\ pre' = messages
  /\ stages' = <<"Transcribing">>
  /\ fresh' = FALSE
  /\ pc' = "transcribe"
  /\ UNCHANGED <<has_key, has_messages, messages, audio_bytes, voice, send_now, clear_chat,
                 rendered, send_disabled, question_text, answer_text, answer_audio,
                 shown, history_panel, calls, chat_arg, fail_log, resets, len_before_reset>>

\* src/app.py:143  the guard fails: no turn in this run
SkipTurn ==
  /\ pc = "guard" /\ ~RunFlow(send_now, audio_bytes)
  /\ pc' = "history"
  /\ UNCHANGED <<has_key, has_messages, messages, audio_bytes, voice, send_now, clear_chat,
                 rendered, send_disabled, question_text, answer_text, answer_audio,
                 shown, history_panel, histvars>>

\* src/app.py:146, 151-154 with 102-111  transcription returns a text
TranscribeOk ==
  /\ pc = "transcribe"
  /\ \E t \in Transcripts :
       /\ question_text' = t
       /\ shown' = shown \o <<Out("markdown", "You said:"), Out("write", t)>>
  /\ calls' = Append(calls, "transcriptions.create")
  /\ stages' = Append(stages, "Answering")
  /\ pc' = "append_user"
  /\ UNCHANGED <<has_key, has_messages, messages, audio_bytes, voice, send_now, clear_chat,
                 rendered, send_disabled, answer_text, answer_audio, history_panel,
                 pre, chat_arg, fresh, fail_log, resets, len_before_reset>>

\* variant: the failed question is logged as an empty user entry
TranscribeFail_Logged ==
  /\ pc = "transcribe"
  /\ calls' = Append(calls, "transcriptions.create")
  /\ shown' = Append(shown, Out("error", "Transcription failed"))
  /\ stages' = Append(stages, "Failed")
  /\ messages' = Append(messages, UserMessage(""))
  /\ fail_log' = messages'
  /\ pc' = "wait"
  /\ UNCHANGED <<has_key, has_messages, audio_bytes, voice, send_now, clear_chat,
                 rendered, send_disabled, question_text, answer_text, answer_audio,
                 history_panel, pre, chat_arg, fresh, resets, len_before_reset>>

\* variant: no st.stop(); the run goes on with an empty question
TranscribeFail_Continue ==
  /\ pc = "transcribe"
  /\ calls' = Append(calls, "transcriptions.create")
  /\ shown' = Append(shown, Out("error", "Transcription failed"))
  /\ stages' = Append(stages, "Failed")
  /\ question_text' = ""
  /\ fail_log' = messages
  /\ pc' = "append_user"
  /\ UNCHANGED <<has_key, has_messages, messages, audio_bytes, voice, send_now, clear_chat,
                 rendered, send_disabled, answer_text, answer_audio,
                 history_panel, pre, chat_arg, fresh, resets, len_before_reset>>

\* src/app.py:147-149  transcription raises: st.error, st.stop()
TranscribeFail ==
  /\ pc = "transcribe"
  /\ calls' = Append(calls, "transcriptions.create")
  /\ shown' = Append(shown, Out("error", "Transcription failed"))
  /\ stages' = Append(stages, "Failed")
  /\ fail_log' = messages
  /\ pc' = "wait"
  /\ UNCHANGED <<has_key, has_messages, messages, audio_bytes, voice, send_now, clear_chat,
                 rendered, send_disabled, question_text, answer_text, answer_audio,
                 history_panel, pre, chat_arg, fresh, resets, len_before_reset>>

\* src/app.py:116  get_fort_siloso_answer records the question first
AppendUser ==
  /\ pc = "append_user"
  /\ messages' = AppendQuestion(messages, question_text)
  /\ resets' = 0
  /\ len_before_reset' = 0
  /\ pc' = "completion"
  /\ UNCHANGED <<has_key, has_messages, audio_bytes, voice, send_now, clear_chat,
                 rendered, send_disabled, question_text, answer_text, answer_audio,
                 shown, history_panel, pre, stages, calls, chat_arg, fresh, fail_log>>

\* src/app.py:118-126, 161-164  the completion call returns an answer
CompletionOk ==
  /\ pc = "completion"
  /\ chat_arg' = CompletionMessages(messages)
  /\ calls' = Append(calls, "chat.completions.create")
  /\ \E c \in Completions :
       /\ Len(c.choices) > 0
       /\ messages' = AppendAnswer(messages, AnswerOf(c))
       /\ answer_text' = AnswerOf(c)
       /\ shown' = shown \o <<Out("markdown", "Guide says (text):"), Out("write", AnswerOf(c))>>
  /\ stages' = Append(stages, "Synthesizing")
  /\ pc' = "synthesize"
  /\ UNCHANGED <<has_key, has_messages, audio_bytes, voice, send_now, clear_chat,
                 rendered, send_disabled, question_text, answer_audio, history_panel,
                 pre, fresh, fail_log, resets, len_before_reset>>

\* variant: the unanswered question is removed again on failure
CompletionFail_Rollback ==
  /\ pc = "completion"
  /\ chat_arg' = CompletionMessages(messages)
  /\ calls' = Append(calls, "chat.completions.create")
  /\ shown' = Append(shown, Out("error", "LLM failed"))
  /\ stages' = Append(stages, "Failed")
  /\ messages' = SliceTo(messages, Len(messages) - 1)
  /\ fail_log' = messages'
  /\ pc' = "wait"
  /\ UNCHANGED <<has_key, has_messages, audio_bytes, voice, send_now, clear_chat,
                 rendered, send_disabled, question_text, answer_text, answer_audio,
                 history_panel, pre, fresh, resets, len_before_reset>>

\* src/app.py:157-159  the call raises, or `choices[0]` does: st.error, st.stop()
CompletionFail ==
  /\ pc = "completion"
  /\ chat_arg' = CompletionMessages(messages)
  /\ calls' = Append(calls, "chat.completions.create")
  /\ shown' = Append(shown, Out("error", "LLM failed"))
  /\ stages' = Append(stages, "Failed")
  /\ fail_log' = messages
  /\ pc' = "wait"
  /\ UNCHANGED <<has_key, has_messages, messages, audio_bytes, voice, send_now, clear_chat,
                 rendered, send_disabled, question_text, answer_text, answer_audio,
                 history_panel, pre, fresh, resets, len_before_reset>>

\* src/app.py:166, 171-172 with 129-137  synthesis returns audio, which is played
SynthesizeOk ==
  /\ pc = "synthesize"
  /\ calls' = Append(calls, "speech.create")
  /\ answer_audio' = Speech(voice, answer_text)
  /\ shown' = shown \o <<Out("markdown", "3. Listen to the answer"), Out("audio", "audio/mp3")>>
  /\ stages' = Append(stages, "Done")
  /\ pc' = "history"
  /\ UNCHANGED <<has_key, has_messages, messages, audio_bytes, voice, send_now, clear_chat,
                 rendered, send_disabled, question_text, answer_text, history_panel,
                 pre, chat_arg, fresh, fail_log, resets, len_before_reset>>

\* variant: an answer that could not be spoken is removed from the log
SynthesizeFail_DropAnswer ==
  /\ pc = "synthesize"
  /\ calls' = Append(calls, "speech.create")
  /\ shown' = Append(shown, Out("error", "TTS failed"))
  /\ stages' = Append(stages, "Failed")
  /\ messages' = SliceTo(messages, Len(messages) - 1)
  /\ fail_log' = messages'
  /\ pc' = "wait"
  /\ UNCHANGED <<has_key, has_messages, audio_bytes, voice, send_now, clear_chat,
                 rendered, send_disabled, question_text, answer_text, answer_audio,
                 history_panel, pre, chat_arg, fresh, resets, len_before_reset>>

\* src/app.py:167-169  synthesis raises: st.error, st.stop()
SynthesizeFail ==
  /\ pc = "synthesize"
  /\ calls' = Append(calls, "speech.create")
  /\ shown' = Append(shown, Out("error", "TTS failed"))
  /\ stages' = Append(stages, "Failed")
  /\ fail_log' = messages
  /\ pc' = "wait"
  /\ UNCHANGED <<has_key, has_messages, messages, audio_bytes, voice, send_now, clear_chat,
                 rendered, send_disabled, question_text, answer_text, answer_audio,
                 history_panel, pre, chat_arg, fresh, resets, len_before_reset>>

\* src/app.py:177-182  the conversation panel; the run ends
RenderHistory ==
  /\ pc = "history"
  /\ history_panel' = HistoryLines(messages)
  /\ pc' = "wait"
  /\ UNCHANGED <<has_key, has_messages, messages, audio_bytes, voice, send_now, clear_chat,
                 rendered, send_disabled, question_text, answer_text, answer_audio,
                 shown, histvars>>

Next ==
  \/ Record
  \/ SelectVoice
  \/ ClickSend
  \/ ClickReset
  \/ StartupNoKey
  \/ ScriptTop
  \/ ClearChat
  \/ NoClearChat
  \/ StartTurn
  \/ SkipTurn
  \/ TranscribeOk
  \/ TranscribeFail
  \/ AppendUser
  \/ CompletionOk
  \/ CompletionFail
  \/ SynthesizeOk
  \/ SynthesizeFail
  \/ RenderHistory

Spec == Init /\ [][Next]_vars


\* --------------------------------------------------------- observations
InSeq(x, s) == \E i \in 1..Len(s) : s[i] = x
TurnEnded(stage) == stages # <<>> /\ Last(stages) = stage
LastCall(name) == calls # <<>> /\ Last(calls) = name
InTurn == pc \in {"transcribe", "append_user", "completion", "synthesize"}
StageOrder == <<"Transcribing", "Answering", "Synthesizing", "Done">>
CallOrder == <<"transcriptions.create", "chat.completions.create", "speech.create">>
Exchange == <<UserMessage(question_text), AssistantMessage(answer_text)>>

\* C1: once the log exists, in every state its first entry is the seed
\* system message and no other entry has role system.
C1_SeedInvariant ==
  has_messages =>
    /\ Len(messages) >= 1
    /\ messages[1] = Seed
    /\ \A i \in 2..Len(messages) : messages[i].role # "system"

\* a failed turn after earlier turns and a reset-free history of 4+ entries
C1_Witness == TurnEnded("Failed") /\ Len(messages) >= 4 /\ messages[1] = Seed

\* C2: when a turn has reached Done, the log is the log from before the turn
\* followed by the user entry (transcription output) and the assistant entry
\* (generation output), in that order.
C2_AppendOnSuccess ==
  TurnEnded("Done") => messages = pre \o Exchange

C2_Witness == TurnEnded("Done") /\ Len(pre) >= 3 /\ Len(messages) = Len(pre) + 2

\* C3: when a turn failed at the completion call, the log is the log from
\* before the turn followed by the user entry only, and synthesis was not called.
C3_GenerationFailure ==
  (TurnEnded("Failed") /\ LastCall("chat.completions.create")) =>
    /\ messages = Append(pre, UserMessage(question_text))
    /\ ~InSeq("speech.create", calls)

C3_Witness ==
  /\ TurnEnded("Failed") /\ LastCall("chat.completions.create")
  /\ Len(pre) >= 2 /\ Len(messages) = Len(pre) + 1

\* C4: when a turn failed at the transcription call, the log equals the log
\* from before the turn and no other external call was made.
C4_TranscriptionFailure ==
  (TurnEnded("Failed") /\ LastCall("transcriptions.create")) =>
    /\ messages = pre
    /\ calls = <<"transcriptions.create">>

C4_Witness ==
  /\ TurnEnded("Failed") /\ LastCall("transcriptions.create")
  /\ Len(pre) >= 3 /\ messages = pre

\* C5: after one or more resets in a row the log is exactly [seed], whatever
\* it was before (including [seed] itself).
C5_ResetYieldsSeed ==
  resets >= 1 => messages = <<Seed>>

C5_Witness == resets >= 2 /\ len_before_reset >= 3 /\ messages = <<Seed>>

C7_StageOrder ==
  /\ \/ \E k \in 0..4 : stages = SubSeq(StageOrder, 1, k)
     \/ \E k \in 1..3 : stages = Append(SubSeq(StageOrder, 1, k), "Failed")
  /\ \E k \in 0..3 : calls = SubSeq(CallOrder, 1, k)
  /\ (TurnEnded("Failed") \/ TurnEnded("Done")) => ~InTurn
  /\ TurnEnded("Failed") => Len(calls) = Len(stages) - 1
  /\ InTurn => send_now

C7_Witness == TurnEnded("Failed") /\ Len(stages) = 3 /\ pc = "wait"

\* C8: before and after the synthesis call the log is the pre-turn log plus
\* the turn's user and assistant entries; the answer text is on the page; and
\* if synthesis failed no audio was produced or played.
C8_SynthesisFrame ==
  (pc = "synthesize" \/ LastCall("speech.create")) =>
    /\ messages = pre \o Exchange
    /\ InSeq(Out("write", answer_text), shown)
    /\ TurnEnded("Failed") =>
         /\ answer_audio = NoSpeech
         /\ ~InSeq(Out("audio", "audio/mp3"), shown)

C8_Witness ==
  /\ TurnEnded("Failed") /\ LastCall("speech.create")
  /\ Len(messages) >= 3 /\ Last(messages) = AssistantMessage(answer_text)

\* C9: after a failed turn the log stays as it stood at the failure until the
\* next turn appends to it, and a next turn that reaches Done leaves the
\* retained log followed by its user and assistant entries.
C9_FailureKeepsSession ==
  fail_log # <<>> =>
    /\ (stages = <<>> \/ TurnEnded("Failed") \/ pc \in {"transcribe", "append_user"})
         => messages = fail_log
    /\ pc = "completion" => messages = Append(fail_log, UserMessage(question_text))
    /\ (pc = "synthesize" \/ TurnEnded("Done")) => messages = fail_log \o Exchange

C9_Witness == TurnEnded("Done") /\ Len(fail_log) >= 2 /\ messages = fail_log \o Exchange

\* C10: the user entry is in the log before the completion call is made, and
\* the call receives the whole log: seed first, current question last,
\* nothing omitted.
C10_CompletionContext ==
  /\ pc = "completion" => messages = Append(pre, UserMessage(question_text))
  /\ InSeq("chat.completions.create", calls) =>
       /\ chat_arg = Append(pre, UserMessage(question_text))
       /\ chat_arg[1] = Seed
       /\ Last(chat_arg) = UserMessage(question_text)

C10_Witness == InSeq("chat.completions.create", calls) /\ Len(chat_arg) >= 4
====
